---- MODULE Spec2Model ----
(***************************************************************************)
(* A model of astroid/modutils.py: the module-locating engine.             *)
(*                                                                         *)
(* A path string is a sequence of tokens.  A token is one character ("/",  *)
(* "r", "x", ...) or one indivisible piece of a file name ("__init__",     *)
(* ".py", ".pyc", ".so", "sys").  No token is a prefix of another, so      *)
(* str.startswith, slicing and split(os.sep) on strings are the same       *)
(* operations on token sequences.  A name component is a token sequence    *)
(* too (<<"a">>), a dotted name / modpath is a sequence of components.     *)
(*                                                                         *)
(* Python's None is the empty sequence: for a location, a search path and   *)
(* a context.  Search paths given by callers are None or non-empty lists,  *)
(* so `x or y` on lists is `IF x = None THEN y ELSE x`.                    *)
(***************************************************************************)
EXTENDS Integers, Sequences, FiniteSets, TLC

VARIABLES
    fs,            \* the regular files on disk (set of paths)
    zips,          \* the zip archives on disk: archive path -> set of member paths
    sysPath,       \* sys.path
    hasMachinery,  \* _HAS_MACHINERY and sys.version_info[:2] > (3, 3)
    extendInits,   \* __init__.py files whose text has the extend_path / declare_namespace idiom
    nsPackages,    \* pkg_resources._namespace_packages (dotted names)
    pic,           \* sys.path_importer_cache: the archive handles, in insertion order
    normCache,     \* _NORM_PATH_CACHE
    cwd,           \* the working directory of the process (os.getcwd())
    ret            \* the last call and what it returned or raised

vars == <<fs, zips, sysPath, hasMachinery, extendInits, nsPackages, pic, normCache, cwd, ret>>
host == <<fs, zips, sysPath, hasMachinery, extendInits, nsPackages, cwd>>

\* ------------------------------------------------------------------ bounds

MaxModpathLen == 2

\* ------------------------------------------------------------------ strings

Sep == "/"
None == <<>>
InitName == <<"__init__">>
InitPy == InitName \o <<".py">>
PY_SOURCE_EXTS == << <<".py">> >>
ExtTokens == {".py", ".pyc", ".pyo", ".so", ".pyd", ".pyw"}
BUILTIN_MODULES == { <<"sys">> }

Range(s) == {s[i] : i \in 1..Len(s)}
InSeq(e, s) == \E i \in 1..Len(s) : s[i] = e
StartsWith(s, p) == Len(p) <= Len(s) /\ SubSeq(s, 1, Len(p)) = p
EndsWith(s, p) == Len(p) <= Len(s) /\ SubSeq(s, Len(s) - Len(p) + 1, Len(s)) = p
SliceFrom(s, n) == SubSeq(s, n + 1, Len(s))

RECURSIVE JoinWith(_, _)
JoinWith(sep, parts) ==
    IF parts = <<>> THEN <<>>
    ELSE IF Len(parts) = 1 THEN parts[1]
    ELSE parts[1] \o sep \o JoinWith(sep, Tail(parts))

DotJoin(parts) == JoinWith(<<".">>, parts)
SepJoin(parts) == JoinWith(<<Sep>>, parts)

RECURSIVE SplitSep(_, _)
SplitSep(s, cur) ==
    IF s = <<>> THEN (IF cur = <<>> THEN <<>> ELSE <<cur>>)
    ELSE IF Head(s) = Sep
         THEN (IF cur = <<>> THEN <<>> ELSE <<cur>>) \o SplitSep(Tail(s), <<>>)
         ELSE SplitSep(Tail(s), Append(cur, Head(s)))

\* [pkg for pkg in s.split(os.sep) if pkg]
SplitNonEmpty(s) == SplitSep(s, <<>>)

\* ------------------------------------------------------------------ os.path

Cwd == <<Sep, "w">>

os_path_join(a, b) ==
    IF b # <<>> /\ Head(b) = Sep THEN b
    ELSE IF a = <<>> \/ a[Len(a)] = Sep THEN a \o b
    ELSE a \o <<Sep>> \o b

RECURSIVE JoinAll(_, _)
JoinAll(a, parts) ==
    IF parts = <<>> THEN a ELSE JoinAll(os_path_join(a, Head(parts)), Tail(parts))

LastSep(s) ==
    LET idx == {i \in 1..Len(s) : s[i] = Sep}
    IN  IF idx = {} THEN 0 ELSE CHOOSE i \in idx : \A j \in idx : j <= i

os_path_dirname(p) ==
    LET i == LastSep(p)
    IN  IF i = 0 THEN <<>> ELSE IF i = 1 THEN <<Sep>> ELSE SubSeq(p, 1, i - 1)

os_path_basename(p) == SliceFrom(p, LastSep(p))

os_path_splitext(p) ==
    IF Len(p) >= 2 /\ p[Len(p)] \in ExtTokens /\ p[Len(p) - 1] # Sep
    THEN [root |-> SubSeq(p, 1, Len(p) - 1), ext |-> <<p[Len(p)]>>]
    ELSE [root |-> p, ext |-> <<>>]

os_path_abspath(p) ==
    IF p # <<>> /\ Head(p) = Sep THEN p
    ELSE IF p = <<>> THEN cwd ELSE os_path_join(cwd, p)

os_path_isfile(p) == p \in fs \/ p \in DOMAIN zips
os_path_isdir(p) ==
    p # <<>> /\ \E f \in fs : Len(f) > Len(p) /\ StartsWith(f, p) /\ f[Len(p) + 1] = Sep
os_path_exists(p) == os_path_isfile(p) \/ os_path_isdir(p)

_normalize_path(path) == os_path_abspath(path)
_canonicalize_path(path) == os_path_abspath(path)
_path_from_filename(filename) == filename

\* ------------------------------------------------------------------ ModuleSpec

ModuleSpec(name, type, location, origin, submodule_search_locations) ==
    [name |-> name, type |-> type, location |-> location, origin |-> origin,
     submodule_search_locations |-> submodule_search_locations]
NoSpec == ModuleSpec(<<>>, "NoSpec", None, None, <<>>)
Found(spec) == [found |-> TRUE, spec |-> spec]
NotFound == [found |-> FALSE, spec |-> NoSpec]

_has_init_ext(mod_or_pack, exts) ==
    LET ok == {i \in 1..Len(exts) : os_path_exists(mod_or_pack \o exts[i])}
    IN  IF ok = {} THEN None
        ELSE mod_or_pack \o exts[CHOOSE i \in ok : \A j \in ok : i <= j]

_has_init(directory) ==
    _has_init_ext(os_path_join(directory, InitName),
                  PY_SOURCE_EXTS \o << <<".pyc">>, <<".pyo">> >>)

_is_namespace(modname) == modname \in nsPackages

_is_setuptools_namespace(location) ==
    LET f == os_path_join(location, InitName \o <<".py">>)
    IN  f \in fs /\ f \in extendInits

\* ------------------------------------------------------------------ imp.find_module

ImpSuffixes ==
    << [suffix |-> <<".so">>, type |-> "C_EXTENSION"],
       [suffix |-> <<".py">>, type |-> "PY_SOURCE"],
       [suffix |-> <<".pyc">>, type |-> "PY_COMPILED"] >>

ImpNotFound == [found |-> FALSE, filename |-> None, type |-> "NoSpec"]

\* one entry of the path: a package directory first, then the suffixes in order
ImpEntry(entry, name) ==
    LET pkgdir == os_path_join(entry, name)
        hit == {i \in 1..Len(ImpSuffixes) :
                    os_path_isfile(os_path_join(entry, name \o ImpSuffixes[i].suffix))}
        first == CHOOSE i \in hit : \A j \in hit : i <= j
    IN  IF \/ os_path_isfile(os_path_join(pkgdir, InitName \o <<".py">>))
           \/ os_path_isfile(os_path_join(pkgdir, InitName \o <<".pyc">>))
        THEN [found |-> TRUE, filename |-> pkgdir, type |-> "PKG_DIRECTORY"]
        ELSE IF hit # {}
        THEN [found |-> TRUE,
              filename |-> os_path_join(entry, name \o ImpSuffixes[first].suffix),
              type |-> ImpSuffixes[first].type]
        ELSE ImpNotFound

RECURSIVE ImpSearch(_, _)
ImpSearch(name, entries) ==
    IF entries = <<>> THEN ImpNotFound
    ELSE LET HitOrNext(e) == IF e.found THEN e ELSE ImpSearch(name, Tail(entries))
         IN  HitOrNext(ImpEntry(Head(entries), name))

imp_find_module(name, path) ==
    IF path = None
    THEN IF name \in BUILTIN_MODULES
         THEN [found |-> TRUE, filename |-> None, type |-> "C_BUILTIN"]
         ELSE ImpSearch(name, sysPath)
    ELSE ImpSearch(name, path)

\* ------------------------------------------------------------------ zipimport

zipimporter_opens(path) == path \in DOMAIN zips

ZipSearchOrder ==
    << [suffix |-> <<Sep>> \o InitName \o <<".pyc">>, package |-> TRUE],
       [suffix |-> <<Sep>> \o InitName \o <<".py">>, package |-> TRUE],
       [suffix |-> <<".pyc">>, package |-> FALSE],
       [suffix |-> <<".py">>, package |-> FALSE] >>

\* index in ZipSearchOrder of the first member found for subpath, 0 when none
zip_module_info(archive, subpath) ==
    LET hit == {i \in 1..Len(ZipSearchOrder) :
                    (subpath \o ZipSearchOrder[i].suffix) \in zips[archive]}
    IN  IF hit = {} THEN 0 ELSE CHOOSE i \in hit : \A j \in hit : i <= j

zipimporter_find_module(archive, fullname) == zip_module_info(archive, fullname) # 0

zip_is_dir(archive, subpath) ==
    \E m \in zips[archive] : StartsWith(m, subpath \o <<Sep>>)

\* ------------------------------------------------------------------ importlib.machinery.PathFinder

EntryNone == [kind |-> "none", origin |-> <<>>, locations |-> <<>>]

\* FileFinder.find_spec for one directory entry
FileFinderEntry(entry, name) ==
    LET base == os_path_join(entry, name)
        inits == {i \in 1..Len(ImpSuffixes) :
                     os_path_isfile(os_path_join(base, InitName \o ImpSuffixes[i].suffix))}
        mods == {i \in 1..Len(ImpSuffixes) :
                     os_path_isfile(os_path_join(entry, name \o ImpSuffixes[i].suffix))}
        i1 == CHOOSE i \in inits : \A j \in inits : i <= j
        m1 == CHOOSE i \in mods : \A j \in mods : i <= j
    IN  IF os_path_isdir(base) /\ inits # {}
        THEN [kind |-> "loader",
              origin |-> os_path_join(base, InitName \o ImpSuffixes[i1].suffix),
              locations |-> <<base>>]
        ELSE IF mods # {}
        THEN [kind |-> "loader",
              origin |-> os_path_join(entry, name \o ImpSuffixes[m1].suffix),
              locations |-> <<>>]
        ELSE IF os_path_isdir(base)
        THEN [kind |-> "portion", origin |-> <<>>, locations |-> <<base>>]
        ELSE EntryNone

\* zipimporter.find_loader for one archive entry
ZipEntry(archive, name) ==
    LET mi == zip_module_info(archive, name)
    IN  IF mi # 0
        THEN [kind |-> "loader",
              origin |-> os_path_join(archive, name \o ZipSearchOrder[mi].suffix),
              locations |-> IF ZipSearchOrder[mi].package
                            THEN <<os_path_join(archive, name)>> ELSE <<>>]
        ELSE IF zip_is_dir(archive, name)
        THEN [kind |-> "portion", origin |-> <<>>,
              locations |-> <<os_path_join(archive, name)>>]
        ELSE EntryNone

PathEntry(entry, name) ==
    IF entry \in DOMAIN zips THEN ZipEntry(entry, name)
    ELSE IF os_path_isdir(entry) THEN FileFinderEntry(entry, name)
    ELSE EntryNone

RECURSIVE PathFinderLoop(_, _, _)
PathFinderLoop(entries, name, namespace_path) ==
    IF entries = <<>>
    THEN IF namespace_path = <<>> THEN EntryNone
         ELSE [kind |-> "namespace", origin |-> <<"namespace">>,
               locations |-> namespace_path]
    ELSE LET LoaderOrNext(e) ==
                 IF e.kind = "loader" THEN e
                 ELSE PathFinderLoop(Tail(entries), name, namespace_path \o e.locations)
         IN  LoaderOrNext(PathEntry(Head(entries), name))

PathFinder_find_spec(name, path) ==
    PathFinderLoop(IF path = None THEN sysPath ELSE path, name, <<>>)

\* ------------------------------------------------------------------ the handle cache

\* PrecacheLoop without the test `entry_path not in pic`
RECURSIVE PrecacheLoopNoCache(_, _)
PrecacheLoopNoCache(entries, st) ==
    IF entries = <<>> THEN st
    ELSE IF zipimporter_opens(Head(entries))
    THEN PrecacheLoopNoCache(Tail(entries),
                             [pic |-> IF InSeq(Head(entries), st.pic) THEN st.pic
                                      ELSE Append(st.pic, Head(entries)),
                              opened |-> Append(st.opened, Head(entries))])
    ELSE PrecacheLoopNoCache(Tail(entries),
                             [st EXCEPT !.opened = Append(@, Head(entries))])

\* the walk over the entries: st is [pic, opened], opened the log of the paths
\* zipimport.zipimporter was invoked on during the call
RECURSIVE PrecacheLoop(_, _)
PrecacheLoop(entries, st) ==
    IF entries = <<>> THEN st
    ELSE LET entry_path == Head(entries)
         IN  IF InSeq(entry_path, st.pic) THEN PrecacheLoop(Tail(entries), st)
             ELSE IF zipimporter_opens(entry_path)
             THEN PrecacheLoop(Tail(entries),
                               [pic |-> Append(st.pic, entry_path),
                                opened |-> Append(st.opened, entry_path)])
             ELSE PrecacheLoop(Tail(entries),
                               [st EXCEPT !.opened = Append(@, entry_path)])

_precache_zipimporters(path, st) ==
    PrecacheLoop(IF path = None THEN sysPath ELSE path, st)

RECURSIVE SearchZipLoop(_, _)
SearchZipLoop(modpath, importers) ==
    IF importers = <<>> THEN [found |-> FALSE, filename |-> None, path |-> None]
    ELSE LET filepath == Head(importers)
         IN  IF zipimporter_find_module(filepath, modpath[1])
             THEN IF ~zipimporter_find_module(filepath, SepJoin(modpath))
                  THEN [found |-> FALSE, filename |-> None, path |-> None]
                  ELSE [found |-> TRUE,
                        filename |-> os_path_abspath(filepath) \o <<Sep>> \o SepJoin(modpath),
                        path |-> filepath]
             ELSE SearchZipLoop(modpath, Tail(importers))

_search_zip(modpath, importers) == SearchZipLoop(modpath, importers)

\* ------------------------------------------------------------------ the finders

ImpFinder_find_module(modname, submodule_path) ==
    LET Wrap(r) == IF r.found
                   THEN Found(ModuleSpec(modname, r.type, r.filename, None, <<>>))
                   ELSE NotFound
    IN  Wrap(imp_find_module(modname, submodule_path))

\* submodule_search_locations is the archive's path, a string: kept as a one-element list
ZipFinder_find_module(modname, module_parts, importers) ==
    LET Wrap(r) ==
            IF r.found
            THEN Found(ModuleSpec(modname, "PY_ZIPMODULE", r.filename, <<"egg">>, <<r.path>>))
            ELSE NotFound
    IN  Wrap(_search_zip(module_parts, importers))

PEP420SpecFinder_find_module(modname, submodule_path) ==
    LET Wrap(spec) ==
            IF spec.kind = "none" THEN NotFound
            ELSE Found(ModuleSpec(modname,
                                  IF spec.origin = <<"namespace">> THEN "PY_NAMESPACE" ELSE "None",
                                  IF spec.origin # <<"namespace">> THEN spec.origin ELSE None,
                                  spec.origin,
                                  spec.locations))
    IN  Wrap(PathFinder_find_spec(modname, submodule_path))

Finder_contribute_to_path == None

ImpFinder_contribute_to_path(spec, processed) ==
    IF spec.location = None THEN None
    ELSE IF _is_setuptools_namespace(spec.location)
    THEN SelectSeq([i \in 1..Len(sysPath) |-> JoinAll(sysPath[i], processed)], os_path_isdir)
    ELSE <<spec.location>>

PEP420SpecFinder_contribute_to_path(spec, processed) ==
    IF spec.type = "PY_NAMESPACE" THEN spec.submodule_search_locations ELSE None

find_module(finder, modname, module_parts, submodule_path, importers) ==
    CASE finder = "ImpFinder" -> ImpFinder_find_module(modname, submodule_path)
      [] finder = "ZipFinder" -> ZipFinder_find_module(modname, module_parts, importers)
      [] finder = "PEP420SpecFinder" -> PEP420SpecFinder_find_module(modname, submodule_path)

contribute_to_path(finder, spec, processed) ==
    CASE finder = "ImpFinder" -> ImpFinder_contribute_to_path(spec, processed)
      [] finder = "ZipFinder" -> Finder_contribute_to_path
      [] finder = "PEP420SpecFinder" -> PEP420SpecFinder_contribute_to_path(spec, processed)

\* the archive finder ahead of the native one
FinderClassesSwapped == <<"ZipFinder", "ImpFinder">>

FinderClasses == <<"ImpFinder", "ZipFinder">>

Finders == IF hasMachinery THEN Append(FinderClasses, "PEP420SpecFinder") ELSE FinderClasses

\* for finder in finders: the first that finds the module returns; consulted logs
\* the finders whose find_module was called
RECURSIVE FinderLoop(_, _, _, _, _, _)
FinderLoop(finders, consulted, modname, module_parts, submodule_path, importers) ==
    IF finders = <<>>
    THEN [found |-> FALSE, finder |-> "None", spec |-> NoSpec, consulted |-> consulted]
    ELSE LET Found_or_next(r) ==
                 IF r.found
                 THEN [found |-> TRUE, finder |-> Head(finders), spec |-> r.spec,
                       consulted |-> Append(consulted, Head(finders))]
                 ELSE FinderLoop(Tail(finders), Append(consulted, Head(finders)),
                                 modname, module_parts, submodule_path, importers)
         IN  Found_or_next(find_module(Head(finders), modname, module_parts,
                                       submodule_path, importers))

\* the result and the state of the cache after the call; found = FALSE is
\* ImportError('No module named %s' % '.'.join(module_parts))
_find_spec_with_path(search_path, modname, module_parts, processed, submodule_path, st) ==
    LET Result(st1, r) ==
            [found |-> r.found, finder |-> r.finder, spec |-> r.spec, st |-> st1,
             msg |-> IF r.found THEN <<>> ELSE DotJoin(module_parts),
             step |-> [modname |-> modname, module_parts |-> module_parts,
                       search_path |-> search_path, searched |-> submodule_path,
                       consulted |-> r.consulted, found |-> r.found, finder |-> r.finder,
                       spec |-> r.spec, importers |-> st1.pic]]
        Search(st1) ==
            Result(st1, FinderLoop(Finders, <<>>, modname, module_parts, submodule_path, st1.pic))
    IN  Search(_precache_zipimporters(search_path, st))

\* the while loop of _find_spec; l is the loop's state
RECURSIVE FindSpecLoop(_, _, _)
FindSpecLoop(module_parts, path, l) ==
    IF l.modpath = <<>>
    THEN [tag |-> "spec", spec |-> l.spec, msg |-> <<>>, steps |-> l.steps, st |-> l.st]
    ELSE LET modname == Head(l.modpath)
             rest == Tail(l.modpath)
             processed == Append(l.processed, modname)
             Iterate(r, submodule_path) ==
                 FindSpecLoop(module_parts, path,
                              [modpath |-> rest, processed |-> processed,
                               submodule_path |-> submodule_path,
                               spec |-> IF r.spec.type = "PKG_DIRECTORY"
                                        THEN [r.spec EXCEPT
                                                 !.submodule_search_locations = submodule_path]
                                        ELSE r.spec,
                               steps |-> Append(l.steps, r.step), st |-> r.st])
             Step(r) ==
                 IF ~r.found
                 THEN [tag |-> "ImportError", spec |-> NoSpec, msg |-> r.msg,
                       steps |-> Append(l.steps, r.step), st |-> r.st]
                 ELSE Iterate(r, IF rest # <<>>
                                 THEN contribute_to_path(r.finder, r.spec, processed)
                                 ELSE l.submodule_path)
         IN  Step(_find_spec_with_path(IF path = None THEN sysPath ELSE path,
                                       modname, module_parts, l.processed,
                                       IF l.submodule_path = None THEN path
                                       ELSE l.submodule_path,
                                       l.st))

_find_spec(modpath, path, st) ==
    FindSpecLoop(modpath, path,
                 [modpath |-> modpath, processed |-> <<>>, submodule_path |-> None,
                  spec |-> NoSpec, steps |-> <<>>, st |-> st])

\* ------------------------------------------------------------------ name -> file

get_source_file(filename) ==
    LET base == os_path_splitext(os_path_abspath(_path_from_filename(filename))).root
        ok == {i \in 1..Len(PY_SOURCE_EXTS) : os_path_exists(base \o PY_SOURCE_EXTS[i])}
    IN  IF ok = {} THEN [found |-> FALSE, path |-> None]   \* raise NoSourceFile
        ELSE [found |-> TRUE,
              path |-> base \o PY_SOURCE_EXTS[CHOOSE i \in ok : \A j \in ok : i <= j]]

\* PostProcess without the rewriting of a package directory's kind
PostProcessKeepsKind(spec) ==
    IF spec.type = "PY_COMPILED"
    THEN [tag |-> "AttributeError", spec |-> NoSpec, msg |-> <<"replace">>]
    ELSE IF spec.type = "C_BUILTIN"
    THEN [tag |-> "spec", spec |-> [spec EXCEPT !.location = None], msg |-> <<>>]
    ELSE IF spec.type = "PKG_DIRECTORY"
    THEN [tag |-> "spec", msg |-> <<>>,
          spec |-> [spec EXCEPT !.location = _has_init(spec.location)]]
    ELSE [tag |-> "spec", spec |-> spec, msg |-> <<>>]

\* PostProcess without the lookup of the package-init file
PostProcessKeepsLocation(spec) ==
    IF spec.type = "PY_COMPILED"
    THEN [tag |-> "AttributeError", spec |-> NoSpec, msg |-> <<"replace">>]
    ELSE IF spec.type = "C_BUILTIN"
    THEN [tag |-> "spec", spec |-> [spec EXCEPT !.location = None], msg |-> <<>>]
    ELSE IF spec.type = "PKG_DIRECTORY"
    THEN [tag |-> "spec", msg |-> <<>>, spec |-> [spec EXCEPT !.type = "PY_SOURCE"]]
    ELSE [tag |-> "spec", spec |-> spec, msg |-> <<>>]

\* the rewriting of the chain's result.  ModuleSpec has no attribute PY_SOURCE
\* and no method replace: evaluating either raises AttributeError
PostProcess(spec) ==
    IF spec.type = "PY_COMPILED"
    THEN IF get_source_file(spec.location).found
         THEN [tag |-> "AttributeError", spec |-> NoSpec, msg |-> <<"PY_SOURCE">>]
         ELSE [tag |-> "AttributeError", spec |-> NoSpec, msg |-> <<"replace">>]
    ELSE IF spec.type = "C_BUILTIN"
    THEN [tag |-> "spec", spec |-> [spec EXCEPT !.location = None], msg |-> <<>>]
    ELSE IF spec.type = "PKG_DIRECTORY"
    THEN [tag |-> "spec", msg |-> <<>>,
          spec |-> [spec EXCEPT !.location = _has_init(spec.location),
                                !.type = "PY_SOURCE"]]
    ELSE [tag |-> "spec", spec |-> spec, msg |-> <<>>]

\* the try/except of _spec_from_modpath: c is the attempt in the context
\* directory, p the one in path
_spec_from_modpath(modpath, path, context, st) ==
    LET Result(f, out, ctxSteps, steps) ==
            [tag |-> out.tag, spec |-> out.spec, msg |-> out.msg, chain |-> f.spec,
             ctxSteps |-> ctxSteps, steps |-> steps, st |-> f.st]
        Finish(f, ctxSteps, steps) ==
            Result(f,
                   IF f.tag = "spec" THEN PostProcess(f.spec)
                   ELSE [tag |-> f.tag, spec |-> NoSpec, msg |-> f.msg],
                   ctxSteps, steps)
        InPath(st1, ctxSteps) ==
            LET Use(p) == Finish(p, ctxSteps, p.steps)
            IN  Use(_find_spec(modpath, path, st1))
        InContext(c) ==
            IF c.tag = "spec" THEN Finish(c, c.steps, <<>>) ELSE InPath(c.st, c.steps)
    IN  IF context # None
        THEN InContext(_find_spec(modpath, <<context>>, st))
        ELSE InPath(st, <<>>)

OsPathFile == <<Sep, "l", Sep, "posixpath", ".py">>

file_info_from_modpath(modpath, path, context_file, st) ==
    LET context == IF context_file # None THEN os_path_dirname(context_file) ELSE None
        Plain(st1) == _spec_from_modpath(modpath, path, context, st1)
        Alias(alias) == IF alias.tag # "ImportError" THEN alias ELSE Plain(alias.st)
    IN  IF modpath[1] = <<"xml">>
        THEN Alias(_spec_from_modpath(<< <<"_xmlplus">> >> \o Tail(modpath), path, context, st))
        ELSE IF modpath = << <<"os">>, <<"path">> >>
        THEN [tag |-> "spec", msg |-> <<>>, chain |-> NoSpec,
              spec |-> ModuleSpec(<<"os", ".", "path">>, "imp.PY_SOURCE", OsPathFile, None, <<>>),
              ctxSteps |-> <<>>, steps |-> <<>>, st |-> st]
        ELSE Plain(st)

\* ------------------------------------------------------------------ file -> name

\* the cache after the call and the value returned
\* _cache_normalize_path without the test `if not path`
_cache_normalize_path_any(path, cache) ==
    IF path \in DOMAIN cache THEN [value |-> cache[path], cache |-> cache]
    ELSE [value |-> _normalize_path(path),
          cache |-> (path :> _normalize_path(path)) @@ cache]

_cache_normalize_path(path, cache) ==
    IF path \in DOMAIN cache THEN [value |-> cache[path], cache |-> cache]
    ELSE IF path = <<>> THEN [value |-> _normalize_path(path), cache |-> cache]
    ELSE [value |-> _normalize_path(path),
          cache |-> (path :> _normalize_path(path)) @@ cache]

RECURSIVE CheckLoop(_, _, _)
CheckLoop(path, modpath, rest) ==
    IF rest = <<>> THEN TRUE
    ELSE LET part == Head(rest)
             here == os_path_join(path, part)
         IN  IF _has_init(here) = None /\ ~_is_namespace(DotJoin(Append(modpath, part)))
             THEN FALSE
             ELSE CheckLoop(here, Append(modpath, part), Tail(rest))

check_modpath_has_init(path, mod_path) == CheckLoop(path, <<>>, mod_path)

AllButLast(s) == SubSeq(s, 1, Len(s) - 1)

SplitDot(name) ==
    LET RECURSIVE Go(_, _)
        Go(s, cur) ==
            IF s = <<>> THEN <<cur>>
            ELSE IF Head(s) = "." THEN <<cur>> \o Go(Tail(s), <<>>)
            ELSE Go(Tail(s), Append(cur, Head(s)))
    IN  Go(name, <<>>)

\* the loop over extrapath, a dict given as the sequence of its items
RECURSIVE ExtraLoop(_, _)
ExtraLoop(items, base) ==
    IF items = <<>> THEN [found |-> FALSE, value |-> <<>>]
    ELSE LET path_ == _canonicalize_path(Head(items).path)
             path == os_path_abspath(path_)
             submodpath == SplitNonEmpty(SliceFrom(base, Len(path)))
         IN  IF /\ path # <<>>
                /\ StartsWith(base, path)
                /\ check_modpath_has_init(path, AllButLast(submodpath))
             THEN [found |-> TRUE, value |-> SplitDot(Head(items).pkg) \o submodpath]
             ELSE ExtraLoop(Tail(items), base)

\* the loop over sys.path: root is the entry the result was derived from
RECURSIVE SysPathLoop(_, _, _)
SysPathLoop(entries, base, cache) ==
    IF entries = <<>> THEN [found |-> FALSE, value |-> <<>>, root |-> None, cache |-> cache]
    ELSE LET n == _cache_normalize_path(_canonicalize_path(Head(entries)), cache)
             path == n.value
             modpath == SplitNonEmpty(SliceFrom(base, Len(path)))
         IN  IF /\ path # <<>>
                /\ StartsWith(base, path)
                /\ check_modpath_has_init(path, AllButLast(modpath))
             THEN [found |-> TRUE, value |-> modpath, root |-> path, cache |-> n.cache]
             ELSE SysPathLoop(Tail(entries), base, n.cache)

\* found = FALSE is ImportError('Unable to find module for %s in %s')
modpath_from_file(filename, extrapath, cache) ==
    LET base == os_path_splitext(os_path_abspath(_path_from_filename(filename))).root
        e == ExtraLoop(extrapath, base)
        g == SysPathLoop(sysPath, base, cache)
    IN  IF e.found
        THEN [found |-> TRUE, value |-> e.value, root |-> None, cache |-> cache]
        ELSE g

\* ------------------------------------------------------------------ bulk discovery

filenames_in(directory) ==
    {os_path_basename(f) : f \in {g \in fs : os_path_dirname(g) = directory}}

dirnames_in(directory) ==
    {SplitNonEmpty(SliceFrom(f, Len(directory)))[1] :
        f \in {g \in fs : /\ Len(g) > Len(directory) + 1
                          /\ StartsWith(g, directory \o <<Sep>>)
                          /\ os_path_dirname(g) # directory}}

\* _handle_blacklist that removes directories only
_handle_blacklist_dirs_only(blacklist, dirnames, filenames) ==
    [dirnames |-> dirnames \ blacklist, filenames |-> filenames]

_handle_blacklist(blacklist, dirnames, filenames) ==
    [dirnames |-> dirnames \ blacklist,
     filenames |-> filenames \ {n \in blacklist : n \notin dirnames}]

_is_python_file(filename) ==
    \E ext \in {".py", ".so", ".pyd", ".pyw"} : EndsWith(filename, <<ext>>)

\* os.walk from directory, top down; the order of the files is the listing
\* order of the directories, so the result is kept as a set
RECURSIVE Walk(_, _, _)
Walk(directory, blacklist, list_all) ==
    LET l == _handle_blacklist(blacklist, dirnames_in(directory), filenames_in(directory))
    IN  IF ~list_all /\ InitPy \notin l.filenames THEN {}
        ELSE {os_path_join(directory, fn) : fn \in {n \in l.filenames : _is_python_file(n)}}
             \cup UNION {Walk(os_path_join(directory, d), blacklist, list_all) :
                            d \in l.dirnames}

\* get_module_files that lists every directory
get_module_files_all(src_directory, blacklist, list_all) ==
    Walk(src_directory, blacklist, TRUE)

get_module_files(src_directory, blacklist, list_all) ==
    Walk(src_directory, blacklist, list_all)

\* ------------------------------------------------------------------ queries

\* get_python_lib(): the directory of the third-party packages, inside the
\* standard library's directory
EXT_LIB_DIR == <<Sep, "l", Sep, "s">>

\* the set has one directory here, so its iteration order is immaterial
STD_LIB_DIRS == << <<Sep, "l">> >>

file_from_modpath(modpath, path, context_file, st) ==
    file_info_from_modpath(modpath, path, context_file, st)

\* for path in std_path: the first directory the file name starts with
RECURSIVE StdPathLoop(_, _, _)
StdPathLoop(std_path, filename, cache) ==
    IF std_path = <<>> THEN [value |-> FALSE, cache |-> cache]
    ELSE LET HitOrNext(n) ==
                 IF StartsWith(filename, n.value) THEN [value |-> TRUE, cache |-> n.cache]
                 ELSE StdPathLoop(Tail(std_path), filename, n.cache)
         IN  HitOrNext(_cache_normalize_path(Head(std_path), cache))

\* std_path is None or a non-empty list.  tag is "bool" for a returned
\* value, else the exception that leaves the function
is_standard_module(modname, std_path, st, cache) ==
    LET name == SplitDot(modname)[1]
        Answer(r, b) ==
            [tag |-> "bool", value |-> b.value, spec |-> r.spec, st |-> r.st,
             cache |-> b.cache]
        Located(r, filename) ==
            LET NotExt(n) ==
                    IF StartsWith(filename, n.value)
                    THEN Answer(r, [value |-> FALSE, cache |-> n.cache])
                    ELSE Answer(r, StdPathLoop(IF std_path = None THEN STD_LIB_DIRS
                                               ELSE std_path,
                                               filename, n.cache))
            IN  NotExt(_cache_normalize_path(EXT_LIB_DIR, cache))
        Use(r) ==
            IF r.tag = "ImportError"
            THEN Answer(r, [value |-> FALSE, cache |-> cache])
            ELSE IF r.tag # "spec"
            THEN [tag |-> r.tag, value |-> FALSE, spec |-> r.spec, st |-> r.st,
                  cache |-> cache]
            ELSE IF r.spec.location = None
            THEN Answer(r, [value |-> ~_is_namespace(name), cache |-> cache])
            ELSE Located(r, _normalize_path(r.spec.location))
    IN  Use(file_from_modpath(<<name>>, None, None, st))

\* is_relative without the test `from_file in sys.path`
is_relative_always_looks(modname, from_file) ==
    LET Test(dir) ==
            [value |-> imp_find_module(SplitDot(modname)[1], <<dir>>).found,
             looked_up |-> TRUE]
    IN  Test(IF ~os_path_isdir(from_file) THEN os_path_dirname(from_file) ELSE from_file)

\* looked_up: imp.find_module was called
is_relative(modname, from_file) ==
    LET Test(dir) ==
            IF InSeq(dir, sysPath) THEN [value |-> FALSE, looked_up |-> FALSE]
            ELSE [value |-> imp_find_module(SplitDot(modname)[1], <<dir>>).found,
                  looked_up |-> TRUE]
    IN  Test(IF ~os_path_isdir(from_file) THEN os_path_dirname(from_file) ELSE from_file)

\* ------------------------------------------------------------------ the universe

R1 == <<Sep, "r">>
R2 == <<Sep, "r", "x">>
Z1 == <<Sep, "z">>
NA == <<"a">>
NB == <<"b">>

Names == {NA, NB, <<"sys">>}

RECURSIVE SeqsUpTo(_, _)
SeqsUpTo(S, n) ==
    IF n = 0 THEN {<<>>}
    ELSE LET shorter == SeqsUpTo(S, n - 1)
         IN  shorter \cup {Append(q, e) : q \in shorter, e \in S}

Modpaths == SeqsUpTo(Names, MaxModpathLen) \ {<<>>}

ResolveFiles ==
    { JoinAll(R1, <<NA, InitPy>>), JoinAll(R1, <<NA, NB \o <<".py">> >>),
      JoinAll(R1, <<NA, NB \o <<".pyc">> >>),
      JoinAll(R2, <<NA, NB \o <<".py">> >>), JoinAll(R2, <<NB \o <<".py">> >>) }

ZipContents ==
    { {}, {JoinAll(NA, <<InitPy>>)},
      {JoinAll(NA, <<InitPy>>), JoinAll(NA, <<NB \o <<".py">> >>)} }

SearchPaths == { None, <<R2>> }
ContextFiles == { None, JoinAll(R2, << <<"c", ".py">> >>) }

NoCall == [op |-> "none"]

InitResolve ==
    /\ fs \in SUBSET ResolveFiles
    /\ zips \in {[z \in {Z1} |-> c] : c \in ZipContents}
    /\ sysPath = <<R2, R1, Z1>>
    /\ hasMachinery \in BOOLEAN
    /\ extendInits \in SUBSET (fs \cap {JoinAll(R1, <<NA, InitPy>>)})
    /\ nsPackages = {}
    /\ pic = <<>>
    /\ normCache = <<>>
    /\ cwd = Cwd
    /\ ret = NoCall

\* ------------------------------------------------------------------ the operations

FileInfoFromModpath(modpath, path, context_file) ==
    LET Returns(r) ==
            /\ pic' = r.st.pic
            /\ ret' = [op |-> "file_info_from_modpath", modpath |-> modpath, path |-> path,
                       context_file |-> context_file, tag |-> r.tag, spec |-> r.spec,
                       msg |-> r.msg, chain |-> r.chain, ctxSteps |-> r.ctxSteps,
                       steps |-> r.steps, opened |-> r.st.opened, importers |-> pic]
    IN  /\ ret = NoCall
        /\ Returns(file_info_from_modpath(modpath, path, context_file,
                                          [pic |-> pic, opened |-> <<>>]))
        /\ UNCHANGED <<host, normCache>>

\* the caller takes the result; the next call starts from the caches as they are
Return ==
    /\ ret # NoCall
    /\ ret' = NoCall
    /\ UNCHANGED <<host, pic, normCache>>

NextResolve ==
    \/ \E modpath \in Modpaths, path \in SearchPaths, context_file \in ContextFiles :
            FileInfoFromModpath(modpath, path, context_file)
    \/ Return

SpecResolve == InitResolve /\ [][NextResolve]_vars

\* ------------------------------------------------------------------ file -> name: the operations

NX == <<"x">>
DirNames == {NA, NB, NX}
DirPaths == SeqsUpTo(DirNames, MaxModpathLen)

FileFiles ==
    { JoinAll(R1, <<InitPy>>), JoinAll(R1, <<NA, InitPy>>),
      JoinAll(R1, <<NA, NB \o <<".py">> >>), JoinAll(R1, <<NB \o <<".py">> >>),
      JoinAll(R1, <<NX, InitPy>>),
      JoinAll(R2, <<NB \o <<".py">> >>), JoinAll(R1, <<NB, InitPy>>) }

Filenames == FileFiles \cup {JoinAll(R1, <<NA, NB \o <<".pyc">> >>)}
ExtraPaths == { <<>>, << [path |-> R2, pkg |-> <<"a", ".", "x">>] >> }
Roots == {R1, R2}
Blacklists == { {}, {NA}, {NB \o <<".py">>}, {InitPy} }

InitFile ==
    /\ fs \in SUBSET FileFiles
    /\ zips = [z \in {Z1} |-> {}]
    /\ sysPath \in { <<R1>>, <<R1, R2>>, <<R2, R1>> }
    /\ hasMachinery \in BOOLEAN
    /\ extendInits = {}
    /\ nsPackages \in { {}, {NA} }
    /\ pic = <<>>
    /\ normCache = <<>>
    /\ cwd = Cwd
    /\ ret = NoCall

CheckModpathHasInit(path, mod_path) ==
    /\ ret = NoCall
    /\ ret' = [op |-> "check_modpath_has_init", path |-> path, mod_path |-> mod_path,
               value |-> check_modpath_has_init(path, mod_path)]
    /\ UNCHANGED <<host, pic, normCache>>

ModpathFromFile(filename, extrapath) ==
    LET Returns(r) ==
            /\ normCache' = r.cache
            /\ ret' = [op |-> "modpath_from_file", filename |-> filename,
                       extrapath |-> extrapath,
                       tag |-> IF r.found THEN "list" ELSE "ImportError",
                       value |-> r.value, root |-> r.root]
    IN  /\ ret = NoCall
        /\ Returns(modpath_from_file(filename, extrapath, normCache))
        /\ UNCHANGED <<host, pic>>

GetModuleFiles(src_directory, blacklist, list_all) ==
    /\ ret = NoCall
    /\ ret' = [op |-> "get_module_files", src_directory |-> src_directory,
               blacklist |-> blacklist, list_all |-> list_all,
               files |-> get_module_files(src_directory, blacklist, list_all)]
    /\ UNCHANGED <<host, pic, normCache>>

\* the three calls of the round trip in a row: a file of get_module_files to
\* modpath_from_file, and the components it returns to file_info_from_modpath
RoundTrip(src_directory, list_all, f) ==
    LET Returns(m, tag, spec, importers) ==
            /\ normCache' = m.cache
            /\ pic' = importers
            /\ ret' = [op |-> "round_trip", src_directory |-> src_directory,
                       list_all |-> list_all, file |-> f,
                       found |-> m.found, modpath |-> m.value, root |-> m.root,
                       tag |-> tag, spec |-> spec]
        Resolved(m, r) == Returns(m, r.tag, r.spec, r.st.pic)
        Named(m) ==
            IF m.found /\ m.value # <<>>
            THEN Resolved(m, file_info_from_modpath(m.value, None, None,
                                                   [pic |-> pic, opened |-> <<>>]))
            ELSE Returns(m, "none", NoSpec, pic)
    IN  /\ ret = NoCall
        /\ f \in get_module_files(src_directory, {}, list_all)
        /\ Named(modpath_from_file(f, <<>>, normCache))
        /\ UNCHANGED host

NextFile ==
    \/ \E path \in Roots, mod_path \in DirPaths : CheckModpathHasInit(path, mod_path)
    \/ \E filename \in Filenames, extrapath \in ExtraPaths :
            ModpathFromFile(filename, extrapath)
    \/ \E src_directory \in Roots, blacklist \in Blacklists, list_all \in BOOLEAN :
            GetModuleFiles(src_directory, blacklist, list_all)
    \/ \E src_directory \in Roots, list_all \in BOOLEAN, f \in FileFiles :
            RoundTrip(src_directory, list_all, f)
    \/ Return

SpecFile == InitFile /\ [][NextFile]_vars

\* ------------------------------------------------------------------ queries: the operations

LibDir == <<Sep, "l">>
LX == <<Sep, "l", "x">>
WorkDir == Cwd
NC == <<"c">>

QueryFiles ==
    { JoinAll(LibDir, <<NA \o <<".py">> >>), JoinAll(EXT_LIB_DIR, <<NA \o <<".py">> >>),
      JoinAll(LX, <<NA \o <<".py">> >>), JoinAll(R1, <<NB, NC \o <<".py">> >>),
      JoinAll(WorkDir, <<NA \o <<".py">> >>) }

QueryNames == { NA, <<"a", ".", "b">>, NB, <<"sys">> }
StdPaths == { None, <<R1>> }
FromFiles == { JoinAll(LX, <<NC \o <<".py">> >>), JoinAll(WorkDir, <<NC \o <<".py">> >>), LX }

InitQuery ==
    /\ fs \in SUBSET QueryFiles
    /\ zips = [z \in {Z1} |-> {}]
    /\ sysPath \in { <<LibDir>>, <<EXT_LIB_DIR, LibDir>>, <<LX, R1, LibDir>> }
    /\ hasMachinery \in BOOLEAN
    /\ extendInits = {}
    /\ nsPackages \in { {}, {NB} }
    /\ pic = <<>>
    /\ normCache = <<>>
    /\ cwd = Cwd
    /\ ret = NoCall

IsStandardModule(modname, std_path) ==
    LET Returns(r) ==
            /\ pic' = r.st.pic
            /\ normCache' = r.cache
            /\ ret' = [op |-> "is_standard_module", modname |-> modname,
                       std_path |-> std_path, tag |-> r.tag, value |-> r.value,
                       spec |-> r.spec]
    IN  /\ ret = NoCall
        /\ Returns(is_standard_module(modname, std_path,
                                      [pic |-> pic, opened |-> <<>>], normCache))
        /\ UNCHANGED host

IsRelative(modname, from_file) ==
    LET Returns(r) ==
            ret' = [op |-> "is_relative", modname |-> modname, from_file |-> from_file,
                    value |-> r.value, looked_up |-> r.looked_up]
    IN  /\ ret = NoCall
        /\ Returns(is_relative(modname, from_file))
        /\ UNCHANGED <<host, pic, normCache>>

NextQuery ==
    \/ \E modname \in QueryNames, std_path \in StdPaths : IsStandardModule(modname, std_path)
    \/ \E modname \in QueryNames, from_file \in FromFiles : IsRelative(modname, from_file)
    \/ Return

SpecQuery == InitQuery /\ [][NextQuery]_vars

\* ------------------------------------------------------------------ the path cache: the operations

CachePaths == { <<>>, <<"r">>, <<"x">>, R1, LibDir }
WorkDirs == { Cwd, R1, LibDir }

InitCache ==
    /\ fs = {JoinAll(R1, <<NA \o <<".py">> >>)}
    /\ zips = [z \in {Z1} |-> {}]
    /\ sysPath \in { <<R1>>, <<LibDir, R1>> }
    /\ hasMachinery = FALSE
    /\ extendInits = {}
    /\ nsPackages = {}
    /\ pic = <<>>
    /\ normCache = <<>>
    /\ cwd = Cwd
    /\ ret = NoCall

CacheNormalizePath(path) ==
    LET Returns(r) ==
            /\ normCache' = r.cache
            /\ ret' = [op |-> "_cache_normalize_path", path |-> path, value |-> r.value]
    IN  /\ ret = NoCall
        /\ Returns(_cache_normalize_path(path, normCache))
        /\ UNCHANGED <<host, pic>>

\* os.chdir between two calls
Chdir(directory) ==
    /\ ret = NoCall
    /\ cwd # directory
    /\ cwd' = directory
    /\ UNCHANGED <<fs, zips, sysPath, hasMachinery, extendInits, nsPackages, pic,
                   normCache, ret>>

NextCache ==
    \/ \E path \in CachePaths : CacheNormalizePath(path)
    \/ \E filename \in {JoinAll(R1, <<NA \o <<".py">> >>)} : ModpathFromFile(filename, <<>>)
    \/ \E directory \in WorkDirs : Chdir(directory)
    \/ Return

SpecCache == InitCache /\ [][NextCache]_vars

\* ------------------------------------------------------------------ two archives: the operations

Z2 == <<Sep, "y">>

InitZip ==
    /\ fs = {}
    /\ zips \in {[z \in {Z1, Z2} |-> IF z = Z1 THEN c1 ELSE c2] :
                    c1 \in ZipContents, c2 \in ZipContents}
    /\ sysPath \in { <<Z1, Z2>>, <<Z2, Z1>>, <<R1, Z1>> }
    /\ hasMachinery \in BOOLEAN
    /\ extendInits = {}
    /\ nsPackages = {}
    /\ pic = <<>>
    /\ normCache = <<>>
    /\ cwd = Cwd
    /\ ret = NoCall

NextZip ==
    \/ \E modpath \in Modpaths, path \in {None, <<Z2>>} :
            FileInfoFromModpath(modpath, path, None)
    \/ Return

SpecZip == InitZip /\ [][NextZip]_vars

\* ------------------------------------------------------------------ properties

IsFileInfo == ret.op = "file_info_from_modpath"
Context == os_path_dirname(ret.context_file)
CtxSteps == IF IsFileInfo THEN ret.ctxSteps ELSE <<>>
PathSteps == IF IsFileInfo THEN ret.steps ELSE <<>>
AllSteps == CtxSteps \o PathSteps

StepFinds(s, finder) ==
    find_module(finder, s.modname, s.module_parts, s.searched, s.importers)

ExpectedOrder ==
    <<"ImpFinder", "ZipFinder">> \o (IF hasMachinery THEN <<"PEP420SpecFinder">> ELSE <<>>)

\* C1: for each component the strategies are consulted in the order native,
\* archive, namespace (the last only when the host supports it); the strategies
\* consulted before the last one all failed, the descriptor is the one of the
\* first strategy that succeeds and nothing is consulted after it; the lookup
\* fails only when every strategy failed, and then the ImportError names the
\* full dotted path.
C1_FirstStrategyWins ==
    /\ \A i \in 1..Len(AllSteps) :
          LET s == AllSteps[i]
              n == Len(s.consulted)
          IN  /\ n >= 1 /\ n <= Len(ExpectedOrder)
              /\ s.consulted = SubSeq(ExpectedOrder, 1, n)
              /\ \A k \in 1..(n - 1) : ~StepFinds(s, s.consulted[k]).found
              /\ s.found => /\ s.finder = s.consulted[n]
                            /\ StepFinds(s, s.finder).found
                            /\ s.spec = StepFinds(s, s.finder).spec
              /\ ~s.found => /\ n = Len(ExpectedOrder)
                             /\ ~StepFinds(s, s.consulted[n]).found
    /\ IsFileInfo =>
          (ret.tag = "ImportError" <=>
              (ret.steps # <<>> /\ ~ret.steps[Len(ret.steps)].found))
    /\ (IsFileInfo /\ ret.tag = "ImportError") => ret.msg = DotJoin(ret.modpath)

\* resolve(['a', 'b']) with a found by the native strategy and b found by none
C1_Witness ==
    /\ IsFileInfo /\ ret.modpath = <<NA, NB>> /\ ret.tag = "ImportError"
    /\ ret.msg = <<"a", ".", "b">>
    /\ Len(ret.steps) = 2
    /\ ret.steps[1].finder = "ImpFinder"
    /\ Len(ret.steps[2].consulted) = 3

\* C2: a descriptor returned by file_info_from_modpath never has kind
\* PKG_DIRECTORY: a chain result of that kind is returned with kind PY_SOURCE.
C2_NeverPackageDirectory ==
    IsFileInfo =>
        /\ ret.tag = "spec" => ret.spec.type # "PKG_DIRECTORY"
        /\ ret.chain.type = "PKG_DIRECTORY" =>
              (ret.tag = "spec" /\ ret.spec.type = "PY_SOURCE")

\* the chain ends on a package directory
C2_Witness ==
    IsFileInfo /\ ret.chain.type = "PKG_DIRECTORY" /\ ret.tag = "spec"

\* C3: when the chain ends on kind PY_COMPILED, resolution does not raise: with
\* a sibling source file the descriptor returned has kind PY_SOURCE and that
\* file as location, without one it is the chain's descriptor unchanged.
C3_CompiledFailsSoft ==
    (IsFileInfo /\ ret.chain.type = "PY_COMPILED") =>
        /\ ret.tag = "spec"
        /\ IF get_source_file(ret.chain.location).found
           THEN /\ ret.spec.type = "PY_SOURCE"
                /\ ret.spec.location = get_source_file(ret.chain.location).path
           ELSE ret.spec = ret.chain

\* the directories the chain's final descriptor names
ChainDirs ==
    IF ret.chain.type = "PKG_DIRECTORY" THEN {ret.chain.location}
    ELSE IF ret.chain.type = "PY_NAMESPACE"
    THEN Range(ret.chain.submodule_search_locations)
    ELSE {}

DescendsOnlyIntoPackages(steps) ==
    \A i \in 1..Len(steps) :
        (steps[i].found /\ i < Len(steps[i].module_parts)) =>
            CASE steps[i].spec.type = "PKG_DIRECTORY" ->
                    /\ Len(steps) > i
                    /\ steps[i + 1].searched = <<steps[i].spec.location>>
              [] steps[i].spec.type = "PY_NAMESPACE" ->
                    /\ Len(steps) > i
                    /\ steps[i + 1].searched = steps[i].spec.submodule_search_locations
              [] OTHER -> Len(steps) = i

\* C5: components left after a component that is neither a package directory
\* nor a namespace make the resolution fail with the not-found error, no
\* search path being consulted for the next component.
C5_NoDescentPastNonPackage ==
    /\ DescendsOnlyIntoPackages(CtxSteps)
    /\ DescendsOnlyIntoPackages(PathSteps)
    /\ (IsFileInfo /\ ret.steps # <<>>
          /\ Len(ret.steps) < Len(ret.modpath)) => ret.tag = "ImportError"

\* C6: the context directory is the candidate path of the first component
\* only; a result found there is returned; a not-found there gives exactly the
\* outcome of the same call with no context.
C6_ContextFirstComponentOnly ==
    (IsFileInfo /\ ret.context_file # None) =>
        LET plain == file_info_from_modpath(ret.modpath, ret.path, None,
                                            [pic |-> ret.importers, opened |-> <<>>])
        IN  /\ ret.ctxSteps # <<>>
            /\ ret.ctxSteps[1].searched = <<Context>>
            /\ \A i \in 2..Len(ret.ctxSteps) : ret.ctxSteps[i].searched # <<Context>>
            /\ ret.steps # <<>> =>
                  /\ ret.tag = plain.tag
                  /\ ret.spec = plain.spec
                  /\ ret.msg = plain.msg

Occurrences(e, s) == Cardinality({i \in 1..Len(s) : s[i] = e})

IsModpathFromFile == ret.op = "modpath_from_file"
IsRoundTrip == ret.op = "round_trip"

\* the extension-stripped absolute path of a file
Base(filename) == os_path_splitext(os_path_abspath(filename)).root

\* root is a directory ancestor of the path base
NestedUnder(base, root) == root # <<>> /\ StartsWith(base, root \o <<Sep>>)

\* the components of base below root
ComponentsBelow(base, root) == SplitNonEmpty(SliceFrom(base, Len(root)))

\* C8: when no extra-path root matches, modpath_from_file returns the
\* components derived from the first search-path root that is a directory
\* ancestor of the extension-stripped file path and whose package chain
\* validates; when no root qualifies it raises ImportError.
C8_FirstNestedValidatedRoot ==
    (IsModpathFromFile /\ ~(ret.tag = "list" /\ ret.root = None)) =>
        LET base == Base(ret.filename)
            root(i) == _normalize_path(_canonicalize_path(sysPath[i]))
            ok == {i \in 1..Len(sysPath) :
                      /\ NestedUnder(base, root(i))
                      /\ check_modpath_has_init(root(i),
                                                AllButLast(ComponentsBelow(base, root(i))))}
            first == CHOOSE i \in ok : \A j \in ok : i <= j
        IN  IF ok = {} THEN ret.tag = "ImportError"
            ELSE /\ ret.tag = "list"
                 /\ ret.value = ComponentsBelow(base, root(first))

\* a directory without a package-init file that the host imports as an
\* implicit namespace package
ImplicitNamespace(directory) ==
    hasMachinery /\ os_path_isdir(directory) /\ _has_init(directory) = None

\* C9: check_modpath_has_init(root, parts) is true exactly when every
\* non-empty prefix of parts is a directory with a package-init file or a
\* namespace package the host recognises, an implicit namespace package
\* included.
C9_EveryPrefixPackageOrNamespace ==
    ret.op = "check_modpath_has_init" =>
        ret.value =
            \A k \in 1..Len(ret.mod_path) :
                LET prefix == SubSeq(ret.mod_path, 1, k)
                    directory == JoinAll(ret.path, prefix)
                IN  \/ _has_init(directory) # None
                    \/ _is_namespace(DotJoin(prefix))
                    \/ ImplicitNamespace(directory)

\* the location and the file are the same up to the extension
SameModuleFile(location, f) ==
    location # None /\ os_path_splitext(location).root = os_path_splitext(f).root

Shadowed(root, components, f) ==
    \/ components[1] \in BUILTIN_MODULES
    \/ LET found == ImpEntry(os_path_dirname(f), components[Len(components)])
       IN  found.type = "PKG_DIRECTORY" \/ found.filename # f

IsStd == ret.op = "is_standard_module"

\* the directories is_standard_module takes as standard
StdDirs == Range(IF ret.std_path = None THEN STD_LIB_DIRS ELSE ret.std_path)

\* C11: is_standard_module is true for every built-in name, and false for
\* every other name whose resolved location is inside none of the standard
\* directories (inside: the directory is an ancestor of the location).
C11_StandardByDirectory ==
    IsStd =>
        LET name == SplitDot(ret.modname)[1]
        IN  /\ name \in BUILTIN_MODULES => (ret.tag = "bool" /\ ret.value)
            /\ (/\ name \notin BUILTIN_MODULES
                /\ ret.tag = "bool"
                /\ ret.spec.location # None
                /\ \A d \in StdDirs :
                      ~NestedUnder(_normalize_path(ret.spec.location), _normalize_path(d)))
               => ~ret.value

\* the directory is_relative takes for from_file
FromDir ==
    IF os_path_isdir(ret.from_file) THEN ret.from_file ELSE os_path_dirname(ret.from_file)

\* C12: is_relative(m, f) is false, and makes no lookup of m, whenever the
\* directory of f (f itself when it is a directory) is an entry of sys.path.
C12_RootIsNeverRelative ==
    (ret.op = "is_relative" /\ InSeq(FromDir, sysPath)) =>
        (~ret.value /\ ~ret.looked_up)

\* a module that exists beside a file of a search-path root, and beside a
\* directory given as from_file, is reported as not relative
C12_Witness ==
    /\ ret.op = "is_relative" /\ InSeq(FromDir, sysPath)
    /\ os_path_isfile(os_path_join(FromDir, SplitDot(ret.modname)[1] \o <<".py">>))
    /\ ~ret.value

\* the descriptors of a call: the ones the finders produced, the one the
\* walk ended on and the one returned
Descriptors ==
    {AllSteps[i].spec : i \in {j \in 1..Len(AllSteps) : AllSteps[j].found}}
        \cup {ret.chain} \cup (IF ret.tag = "spec" THEN {ret.spec} ELSE {})

\* C13: a descriptor has submodule_search_locations only when its kind is
\* PKG_DIRECTORY or PY_NAMESPACE.
C13_ChildLocationsOnlyForPackages ==
    IsFileInfo =>
        \A d \in Descriptors :
            d.submodule_search_locations # <<>> =>
                d.type \in {"PKG_DIRECTORY", "PY_NAMESPACE"}

IsGetModuleFiles == ret.op = "get_module_files"

\* the names of the directories and of the file of f below root
NamesBelow(f, root) == Range(ComponentsBelow(f, root))

\* the directories from root down to the one that holds f
DirsDownTo(f, root) ==
    {d \in {SubSeq(f, 1, n) : n \in Len(root)..Len(f)} :
        (d = root \/ NestedUnder(d, root)) /\ NestedUnder(f, d)}

\* the module files below the root, no name of their path excluded
Candidates ==
    {f \in fs : /\ NestedUnder(f, ret.src_directory)
                /\ _is_python_file(os_path_basename(f))
                /\ NamesBelow(f, ret.src_directory) \cap ret.blacklist = {}}

\* every directory from the root down to the file has an __init__.py
InPackages(f) ==
    \A d \in DirsDownTo(f, ret.src_directory) : os_path_join(d, InitPy) \in fs

\* C14 as stated: only module files with no excluded name are returned;
\* without list_all nothing comes from a directory that lacks __init__.py or
\* from beneath it while the files of the package directories above are
\* returned; with list_all the files of every directory are returned.
C14_ModuleFilesOfPackages ==
    IsGetModuleFiles =>
        /\ ret.files \subseteq Candidates
        /\ ~ret.list_all => ret.files = {f \in Candidates : InPackages(f)}
        /\ ret.list_all => ret.files = Candidates

\* C14 amended: the same, a directory whose __init__.py is excluded
\* counting as a directory that lacks it.
C14_ModuleFilesOfListedPackages ==
    IsGetModuleFiles =>
        /\ ret.files \subseteq Candidates
        /\ ~ret.list_all =>
              ret.files = {f \in Candidates :
                              InPackages(f) /\ InitPy \notin ret.blacklist}
        /\ ret.list_all => ret.files = Candidates

\* a file of the root package is returned, the one of a directory without
\* __init__.py is not, and an excluded file is left out
C14_Witness ==
    /\ IsGetModuleFiles /\ ~ret.list_all /\ ret.src_directory = R1
    /\ ret.blacklist = {NB \o <<".py">>}
    /\ JoinAll(R1, <<NB \o <<".py">> >>) \in fs
    /\ JoinAll(R1, <<NX, InitPy>>) \in fs
    /\ ret.files = {JoinAll(R1, <<InitPy>>), JoinAll(R1, <<NX, InitPy>>)}

IsCacheCall == ret.op = "_cache_normalize_path"

\* C15: the cache never holds the empty string as a key, no key is removed
\* and no stored value changes; a call for a cached key returns the stored
\* value; a call with the empty string recomputes the normalization and
\* leaves the cache as it is.
C15_CacheGrowsOnly ==
    [][/\ <<>> \notin DOMAIN normCache'
       /\ \A k \in DOMAIN normCache :
             k \in DOMAIN normCache' /\ normCache'[k] = normCache[k]
       /\ ret'.op = "_cache_normalize_path" =>
             /\ ret'.path \in DOMAIN normCache =>
                   (ret'.value = normCache[ret'.path] /\ normCache' = normCache)
             /\ ret'.path = <<>> =>
                   (ret'.value = _normalize_path(<<>>) /\ normCache' = normCache)
             /\ ret'.path \in DOMAIN normCache' =>
                   ret'.value = normCache'[ret'.path]]_vars

\* the empty string was normalized after a change of directory, beside a
\* key whose stored value is the one of the directory left
C15_Witness ==
    /\ IsCacheCall /\ ret.path = <<>> /\ ret.value = R1 /\ cwd = R1
    /\ <<"r">> \in DOMAIN normCache
    /\ normCache[<<"r">>] = os_path_join(Cwd, <<"r">>)

\* the archive handle holds the full member path of the components
HoldsMember(archive, module_parts) ==
    zipimporter_find_module(archive, SepJoin(module_parts))

\* C16: whenever a cached archive holds the full member path of the
\* components, _search_zip returns a PY_ZIPMODULE result from an archive that
\* holds it, whatever the archives visited before it hold.
C16_SearchZipComplete ==
    \A i \in 1..Len(AllSteps) :
        LET s == AllSteps[i]
        IN  (/\ InSeq("ZipFinder", s.consulted)
             /\ \E k \in 1..Len(s.importers) : HoldsMember(s.importers[k], s.module_parts))
            => /\ _search_zip(s.module_parts, s.importers).found
               /\ HoldsMember(_search_zip(s.module_parts, s.importers).path, s.module_parts)
====
